---- MODULE Spec2Model ----
(***************************************************************************)
(* Model of the class-timetable bot (bot_core.py, webhook_main.py).        *)
(*                                                                         *)
(* Time is counted in whole minutes.  A datetime is the number of minutes  *)
(* since 00:00 of a Monday (day 0), so date = t \div 1440, weekday =       *)
(* date % 7 and time-of-day = t % 1440.  Asia/Kolkata has no DST, so wall  *)
(* clock arithmetic is plain integer arithmetic.                           *)
(***************************************************************************)
EXTENDS Integers, Sequences, FiniteSets, Bags, TLC

VARIABLES now, sched, USER_GROUP, KNOWN_CHATS, jobs, delivered, reply, ann, calls

vars == <<now, sched, USER_GROUP, KNOWN_CHATS, jobs, delivered, reply, ann, calls>>

\* ---------------------------------------------------------------- bounds
MaxSubscribes == 2
MaxChatSubscribes == 1
MaxChainDay == 9

\* ------------------------------------------------------------ time basics
MinutesPerDay == 1440
DaysPerWeek == 7

hm(h, m) == h * 60 + m

date(t) == t \div MinutesPerDay
weekday(t) == date(t) % DaysPerWeek
timetz(t) == t % MinutesPerDay
combine(d, tod) == d * MinutesPerDay + tod

\* ------------------------------------------------------------------ config
SLOTS ==
  << [start |-> hm(9, 30),  end |-> hm(10, 30)],
     [start |-> hm(10, 30), end |-> hm(11, 30)],
     [start |-> hm(11, 30), end |-> hm(12, 30)],
     [start |-> hm(12, 30), end |-> hm(13, 30)],
     [start |-> hm(14, 30), end |-> hm(15, 30)],
     [start |-> hm(15, 30), end |-> hm(16, 30)],
     [start |-> hm(16, 30), end |-> hm(17, 30)] >>

NumSlots == Len(SLOTS)
SlotIdx == 0 .. (NumSlots - 1)
\* Python indexes from 0, the tuple above from 1.
Slot(i) == SLOTS[i + 1]

LUNCH_FROM == hm(13, 30)
LUNCH_TO == hm(14, 30)

ClassEntry(subject, room) == [subject |-> subject, room |-> room]
\* Python's None in a schedule cell.
None == [subject |-> "", room |-> ""]

SCHEDULE ==
  [d \in 0 .. 6 |->
     CASE d = 0 -> << ClassEntry("DMDW", "BS-102"), ClassEntry("OS", "BS-102"),
                      ClassEntry("AIML", "BS-102"), ClassEntry("WT", "BS-102"),
                      ClassEntry("DMDW LAB", "MBA Gallary"),
                      ClassEntry("DMDW LAB", "MBA Gallary"),
                      ClassEntry("DMDW LAB", "MBA Gallary") >>
       [] d = 1 -> << ClassEntry("OS", "BS-104"), ClassEntry("WT LAB", "BS-104"),
                      ClassEntry("WT LAB", "BS-104"), ClassEntry("WT LAB", "BS-104"),
                      ClassEntry("DMDW", "CS-201"), ClassEntry("AIML", "CS-201"),
                      ClassEntry("AIML", "CS-201") >>
       [] d = 2 -> << ClassEntry("SDE", "Chutti"), ClassEntry("SDE", "Chutti"),
                      ClassEntry("SDE", "Chutti"), None,
                      ClassEntry("CDT", "Chutti"), ClassEntry("CDT", "Chutti"),
                      ClassEntry("CDT", "Chutti") >>
       [] d = 3 -> << ClassEntry("WT", "Oracle Lab"), ClassEntry("AIML LAB", "Oracle Lab"),
                      ClassEntry("AIML LAB", "Oracle Lab"),
                      ClassEntry("AIML LAB", "Oracle Lab"),
                      ClassEntry("DMDW", "BS-403"), ClassEntry("AIML", "BS-403"),
                      ClassEntry("OS", "BS-403") >>
       [] d = 4 -> << ClassEntry("DMDW", "CS-201"), ClassEntry("OS", "CS-201"),
                      ClassEntry("WT", "CS-201"), ClassEntry("WT", "CS-201"),
                      ClassEntry("OS LAB", "MECH DC"), ClassEntry("OS LAB", "MECH DC"),
                      ClassEntry("OS LAB", "MECH DC") >>
       [] OTHER -> << None, None, None, None, None, None, None >> ]

\* Other timetables the SCHEDULE table may be filled with: every weekday key
\* present, 7 cells per day, Sunday closed.  The resolver reads the table only
\* through SUPPORTED_GROUPS, so its cases (an empty week, a week whose only
\* class is earlier today) need tables other than the shipped one.
EmptyWeek == [d \in 0 .. 6 |-> << None, None, None, None, None, None, None >>]

OneClassWeek ==
  [EmptyWeek EXCEPT ![0] = << ClassEntry("OS", "BS-102"), None, None, None,
                              None, None, None >>]

TwoClassWeek ==
  [EmptyWeek EXCEPT ![1] = << None, None, None, ClassEntry("WT", "CS-201"),
                              None, None, None >>,
                    ![4] = << None, None, None, None, None, None,
                              ClassEntry("OS LAB", "MECH DC") >>]

Schedules == {SCHEDULE, EmptyWeek, OneClassWeek, TwoClassWeek}

SUPPORTED_GROUPS == [g \in {"Group-7"} |-> sched]

\* Group names a caller may pass: the supported one and an unknown one.
GroupNames == {"Group-7", "Group-9"}

\* ------------------------------------------------------------- Slot Clock
NoSlot == -1

\* Variant: the slot's end counted as inside it.
in_slot_closed(tod, i) == Slot(i).start <= tod /\ tod <= Slot(i).end

in_slot(tod, i) == Slot(i).start <= tod /\ tod < Slot(i).end

RECURSIVE slot_scan(_, _)
slot_scan(tod, i) ==
  IF i >= NumSlots THEN NoSlot
  ELSE IF in_slot(tod, i) THEN i
  ELSE slot_scan(tod, i + 1)

slot_index_for(t) == slot_scan(timetz(t), 0)

\* --------------------------------------------------------- Class Resolver
\* Variant: the cell looked up in Monday's row whatever the weekday.
current_class_monday(group, t) ==
  LET idx == slot_index_for(t) IN
  IF idx = NoSlot THEN None
  ELSE IF group \notin DOMAIN SUPPORTED_GROUPS THEN None
  ELSE SUPPORTED_GROUPS[group][0][idx + 1]

current_class(group, t) ==
  LET idx == slot_index_for(t) IN
  IF idx = NoSlot THEN None
  ELSE IF group \notin DOMAIN SUPPORTED_GROUPS THEN None
  ELSE SUPPORTED_GROUPS[group][weekday(t)][idx + 1]

NoResult == [found |-> FALSE, when |-> -1, entry |-> None]

ScanDays == 7

\* Variant: a slot starting exactly at t is not skipped.
AlreadyStarted_strict(dshift, start_dt, t) == dshift = 0 /\ start_dt < t

AlreadyStarted(dshift, start_dt, t) == dshift = 0 /\ start_dt <= t

RECURSIVE next_scan(_, _, _, _)
next_scan(schedule, t, dshift, i) ==
  IF dshift >= ScanDays THEN NoResult
  ELSE IF i >= NumSlots THEN next_scan(schedule, t, dshift + 1, 0)
  ELSE LET day_idx == (weekday(t) + dshift) % 7
           base_date == date(t) + dshift
           start_dt == combine(base_date, Slot(i).start)
           entry == schedule[day_idx][i + 1]
       IN IF AlreadyStarted(dshift, start_dt, t)
            THEN next_scan(schedule, t, dshift, i + 1)
          ELSE IF entry # None
            THEN [found |-> TRUE, when |-> start_dt, entry |-> entry]
          ELSE next_scan(schedule, t, dshift, i + 1)

next_class(group, t) ==
  IF group \notin DOMAIN SUPPORTED_GROUPS THEN NoResult
  ELSE next_scan(SUPPORTED_GROUPS[group], t, 0, 0)

\* ------------------------------------------------------------ result cell
\* What the last call or handler answered: the command handled (cmd), who
\* issued it, the reply chosen (kind) and its data.  Unused fields keep their
\* defaults.
NoReply ==
  [cmd |-> "", kind |-> "none", user |-> 0, chat |-> 0, group |-> "", n |-> 0,
   idx |-> NoSlot, entry |-> None, res |-> NoResult, prev |-> -1]

Reply(cmd, kind, user, chat) ==
  [NoReply EXCEPT !.cmd = cmd, !.kind = kind, !.user = user, !.chat = chat]

\* --------------------------------------------------------- process state
ADMIN_IDS == {1255061320}

\* The (user id, chat id) pairs updates arrive from: the admin and an ordinary
\* user in their private chats (chat id = user id), and the ordinary user in a
\* group chat.
Senders == {<<1255061320, 1255061320>>, <<2002, 2002>>, <<2002, -100>>}

EmptyDict == [u \in {} |-> ""]

dict_get(d, k, default) == IF k \in DOMAIN d THEN d[k] ELSE default

dict_set(d, k, v) == [x \in (DOMAIN d) \cup {k} |-> IF x = k THEN v ELSE d[x]]

_remember_chat(chat) == KNOWN_CHATS \cup {chat}

\* list(KNOWN_CHATS): the members in some order, each once.
RECURSIVE list(_)
list(S) ==
  IF S = {} THEN << >>
  ELSE LET x == CHOOSE y \in S : \A z \in S : y <= z
       IN <<x>> \o list(S \ {x})

NoAnnounce ==
  [pc |-> "idle", known |-> {}, queue |-> << >>, attempted |-> << >>,
   failed |-> << >>, sent |-> 0, user |-> 0, chat |-> 0]

\* --------------------------------------------------------------- handlers
\* Variant: start rebuilds the map with the caller alone.
start_reset(user, chat) ==
  /\ KNOWN_CHATS' = _remember_chat(chat)
  /\ USER_GROUP' = [x \in {user} |-> "Group-7"]
  /\ reply' = Reply("start", "welcome", user, chat)
  /\ UNCHANGED <<now, sched, jobs, delivered, ann, calls>>

start(user, chat) ==
  /\ KNOWN_CHATS' = _remember_chat(chat)
  /\ USER_GROUP' = IF user \notin DOMAIN USER_GROUP
                     THEN dict_set(USER_GROUP, user, "Group-7")
                     ELSE USER_GROUP
  /\ reply' = Reply("start", "welcome", user, chat)
  /\ UNCHANGED <<now, sched, jobs, delivered, ann, calls>>

\* Variant: the requested name stored without the registry check.
setgroup_unchecked(user, chat, text) ==
  /\ KNOWN_CHATS' = _remember_chat(chat)
  /\ IF text = ""
       THEN /\ reply' = [Reply("setgroup", "usage", user, chat) EXCEPT !.group = text]
            /\ UNCHANGED USER_GROUP
     ELSE /\ USER_GROUP' = dict_set(USER_GROUP, user, text)
          /\ reply' = [Reply("setgroup",
                             IF text \in DOMAIN SUPPORTED_GROUPS
                               THEN "group_updated" ELSE "unknown_group",
                             user, chat)
                         EXCEPT !.group = text]
  /\ UNCHANGED <<now, sched, jobs, delivered, ann, calls>>

\* text is " ".join(context.args); it is empty exactly when there are no args.
setgroup(user, chat, text) ==
  /\ KNOWN_CHATS' = _remember_chat(chat)
  /\ IF text = ""
       THEN /\ reply' = [Reply("setgroup", "usage", user, chat) EXCEPT !.group = text]
            /\ UNCHANGED USER_GROUP
     ELSE IF text \notin DOMAIN SUPPORTED_GROUPS
       THEN /\ reply' = [Reply("setgroup", "unknown_group", user, chat)
                           EXCEPT !.group = text]
            /\ UNCHANGED USER_GROUP
     ELSE /\ USER_GROUP' = dict_set(USER_GROUP, user, text)
          /\ reply' = [Reply("setgroup", "group_updated", user, chat)
                         EXCEPT !.group = text]
  /\ UNCHANGED <<now, sched, jobs, delivered, ann, calls>>

help_cmd(user, chat) ==
  /\ KNOWN_CHATS' = _remember_chat(chat)
  /\ reply' = Reply("help", "commands", user, chat)
  /\ UNCHANGED <<now, sched, USER_GROUP, jobs, delivered, ann, calls>>

\* The reply where_is_class chooses; it is reached through text_router only,
\* which has already remembered the chat.  "error" is the unpacking of a None
\* next_class result in the before-first-slot branch.
where_is_class(user, chat) ==
  LET group == dict_get(USER_GROUP, user, "Group-7")
      wk == weekday(now)
      nxt == next_class(group, now)
      cur == current_class(group, now)
      R(kind) == [Reply("where", kind, user, chat) EXCEPT !.group = group, !.res = nxt]
  IN IF wk = 6
       THEN (IF nxt.found THEN R("sunday_next") ELSE R("sunday"))
     ELSE IF timetz(now) < Slot(0).start
       THEN (IF nxt.found THEN R("first_class") ELSE R("error"))
     ELSE IF LUNCH_FROM <= timetz(now) /\ timetz(now) < LUNCH_TO
       THEN (IF nxt.found THEN R("lunch_next") ELSE R("lunch_none"))
     ELSE IF timetz(now) >= Slot(NumSlots - 1).end
       THEN (IF nxt.found THEN R("after_next") ELSE R("after_none"))
     ELSE IF cur # None
       THEN [Reply("where", "current", user, chat)
               EXCEPT !.group = group, !.idx = slot_index_for(now), !.entry = cur]
     ELSE (IF nxt.found THEN R("next") ELSE R("no_class"))

\* text is the lower-cased message, by the phrase it contains.
text_router(user, chat, text) ==
  /\ KNOWN_CHATS' = _remember_chat(chat)
  /\ reply' = IF text = "where is the class" THEN where_is_class(user, chat)
              ELSE IF text = "who is the developer"
                THEN Reply("text", "developer", user, chat)
              ELSE Reply("text", "use_buttons", user, chat)
  /\ UNCHANGED <<now, sched, USER_GROUP, jobs, delivered, ann, calls>>

today(user, chat) ==
  /\ KNOWN_CHATS' = _remember_chat(chat)
  /\ reply' = [Reply("today", "day_schedule", user, chat)
                 EXCEPT !.group = dict_get(USER_GROUP, user, "Group-7"),
                        !.n = weekday(now)]
  /\ UNCHANGED <<now, sched, USER_GROUP, jobs, delivered, ann, calls>>

tomorrow(user, chat) ==
  /\ KNOWN_CHATS' = _remember_chat(chat)
  /\ reply' = [Reply("tomorrow", "day_schedule", user, chat)
                 EXCEPT !.group = dict_get(USER_GROUP, user, "Group-7"),
                        !.n = (weekday(now) + 1) % 7]
  /\ UNCHANGED <<now, sched, USER_GROUP, jobs, delivered, ann, calls>>

week(user, chat) ==
  /\ KNOWN_CHATS' = _remember_chat(chat)
  /\ reply' = [Reply("week", "week_schedule", user, chat)
                 EXCEPT !.group = dict_get(USER_GROUP, user, "Group-7"), !.n = 7]
  /\ UNCHANGED <<now, sched, USER_GROUP, jobs, delivered, ann, calls>>

next_cmd(user, chat) ==
  /\ KNOWN_CHATS' = _remember_chat(chat)
  /\ LET group == dict_get(USER_GROUP, user, "Group-7")
         nxt == next_class(group, now)
     IN reply' = [Reply("next", IF nxt.found THEN "next_class" ELSE "no_upcoming",
                        user, chat)
                    EXCEPT !.group = group, !.res = nxt]
  /\ UNCHANGED <<now, sched, USER_GROUP, jobs, delivered, ann, calls>>

\* --------------------------------------------------------------- reminders
\* strftime('%H:%M') of a time of day.
strftime(tod) == <<tod \div 60, tod % 60>>

REMIND_BEFORE == 10

\* Variant: the reminder set for the slot's start itself.
Job_at_start(user, chat, slot_time, entry, slot_start) ==
  [name |-> <<user, slot_time>>, when |-> slot_time,
   chat |-> chat, entry |-> entry, slot |-> strftime(slot_start)]

\* One run_once registration: the job's name, fire time and data.
Job(user, chat, slot_time, entry, slot_start) ==
  [name |-> <<user, slot_time>>, when |-> slot_time - REMIND_BEFORE,
   chat |-> chat, entry |-> entry, slot |-> strftime(slot_start)]

\* Variant: a job whose name is already queued is not added again.
run_once_unique(queue, job) ==
  IF \E j \in BagToSet(queue) : j.name = job.name THEN queue
  ELSE queue (+) SetToBag({job})

\* run_once adds a job to the queue; names need not be unique.
run_once(queue, job) == queue (+) SetToBag({job})

\* The loop of subscribe from slot i on: the job queue and the count so far.
RECURSIVE subscribe_scan(_, _, _, _, _)
subscribe_scan(user, chat, group, i, acc) ==
  IF i >= NumSlots THEN acc
  ELSE LET slot_start == Slot(i).start
           slot_time == combine(date(now), slot_start)
           entry == SUPPORTED_GROUPS[group][weekday(now)][i + 1]
       IN IF slot_time <= now THEN subscribe_scan(user, chat, group, i + 1, acc)
          ELSE IF entry = None THEN subscribe_scan(user, chat, group, i + 1, acc)
          ELSE IF slot_time - REMIND_BEFORE <= now
            THEN subscribe_scan(user, chat, group, i + 1, acc)
          ELSE subscribe_scan(user, chat, group, i + 1,
                 [queue |-> run_once(acc.queue, Job(user, chat, slot_time, entry, slot_start)),
                  jobs |-> acc.jobs + 1])

subscribe(user, chat) ==
  /\ KNOWN_CHATS' = _remember_chat(chat)
  /\ LET group == dict_get(USER_GROUP, user, "Group-7")
         done == subscribe_scan(user, chat, group, 0, [queue |-> jobs, jobs |-> 0])
     IN /\ jobs' = done.queue
        /\ reply' = [Reply("subscribe",
                           IF done.jobs # 0 THEN "subscribed" ELSE "nothing_remaining",
                           user, chat)
                       EXCEPT !.group = group, !.n = done.jobs]
  /\ calls' = calls (+) SetToBag({[user |-> user, chat |-> chat, at |-> now]})
  /\ UNCHANGED <<now, sched, USER_GROUP, delivered, ann>>

\* The job queue runs a due job once and drops it; reminder_job sends the
\* message built from the job's data.
reminder_job(job) ==
  /\ BagIn(job, jobs)
  /\ job.when <= now
  /\ jobs' = jobs (-) SetToBag({job})
  /\ delivered' = delivered (+)
       SetToBag({[chat |-> job.chat, slot |-> job.slot, entry |-> job.entry]})
  /\ UNCHANGED <<now, sched, USER_GROUP, KNOWN_CHATS, reply, ann, calls>>

\* ---------------------------------------------------------------- announce
\* Variant: a failed send ends the fan-out.
after_send_abort(a, ok) ==
  LET chat_id == Head(a.queue)
  IN [a EXCEPT !.queue = IF ok THEN Tail(a.queue) ELSE << >>,
               !.attempted = Append(a.attempted, chat_id),
               !.failed = IF ok THEN a.failed ELSE Append(a.failed, chat_id),
               !.sent = IF ok THEN a.sent + 1 ELSE a.sent]

\* One send of the fan-out: the chat is attempted; a failure is swallowed.
after_send(a, ok) ==
  LET chat_id == Head(a.queue)
  IN [a EXCEPT !.queue = Tail(a.queue),
               !.attempted = Append(a.attempted, chat_id),
               !.failed = IF ok THEN a.failed ELSE Append(a.failed, chat_id),
               !.sent = IF ok THEN a.sent + 1 ELSE a.sent]

\* Variant: no check of the admin set.
announce_anyone(user, chat, text) ==
  /\ ann.pc # "sending"
  /\ KNOWN_CHATS' = _remember_chat(chat)
  /\ IF text = ""
       THEN /\ reply' = Reply("announce", "usage", user, chat)
            /\ UNCHANGED ann
     ELSE /\ ann' = [NoAnnounce EXCEPT !.pc = "sending", !.known = KNOWN_CHATS',
                                       !.queue = list(KNOWN_CHATS'),
                                       !.user = user, !.chat = chat]
          /\ UNCHANGED reply
  /\ UNCHANGED <<now, sched, USER_GROUP, jobs, delivered, calls>>

\* announce up to its first send: remember the chat, check the admin set and
\* the arguments, snapshot KNOWN_CHATS.
announce(user, chat, text) ==
  /\ ann.pc # "sending"
  /\ KNOWN_CHATS' = _remember_chat(chat)
  /\ IF user \notin ADMIN_IDS
       THEN /\ reply' = Reply("announce", "not_allowed", user, chat)
            /\ UNCHANGED ann
     ELSE IF text = ""
       THEN /\ reply' = Reply("announce", "usage", user, chat)
            /\ UNCHANGED ann
     ELSE /\ ann' = [NoAnnounce EXCEPT !.pc = "sending", !.known = KNOWN_CHATS',
                                       !.queue = list(KNOWN_CHATS'),
                                       !.user = user, !.chat = chat]
          /\ UNCHANGED reply
  /\ UNCHANGED <<now, sched, USER_GROUP, jobs, delivered, calls>>

\* await context.bot.send_message(...) for the next chat of the snapshot; other
\* handlers run between two sends.
announce_send(ok) ==
  /\ ann.pc = "sending"
  /\ ann.queue # << >>
  /\ ann' = after_send(ann, ok)
  /\ UNCHANGED <<now, sched, USER_GROUP, KNOWN_CHATS, jobs, delivered, reply, calls>>

announce_report ==
  /\ ann.pc = "sending"
  /\ ann.queue = << >>
  /\ ann' = NoAnnounce
  /\ reply' = [Reply("announce", "announced", ann.user, ann.chat) EXCEPT !.n = ann.sent]
  /\ UNCHANGED <<now, sched, USER_GROUP, KNOWN_CHATS, jobs, delivered, calls>>

\* -------------------------------------------------------------------- clock
\* The times of day the clock is observed at: the slot starts, the reminder
\* times, and the minutes around them.
ClockPoints ==
  {hm(9, 0), hm(9, 19), hm(9, 25), hm(9, 30), hm(14, 0), hm(14, 30), hm(17, 30)}
    \cup {Slot(i).start - REMIND_BEFORE : i \in SlotIdx}

\* Time passes within the day; a pending job runs when its time comes, so the
\* clock does not pass the fire time of a job still in the queue.
tick(t) ==
  /\ t > now
  /\ date(t) = date(now)
  /\ \A j \in BagToSet(jobs) : j.when >= t
  /\ now' = t
  /\ UNCHANGED <<sched, USER_GROUP, KNOWN_CHATS, jobs, delivered, reply, ann, calls>>

\* ------------------------------------------------ resolver specification
\* The pure functions applied to every minute of a week, every timetable and
\* both a known and an unknown group name.
AllMinutesOfWeek == 0 .. (DaysPerWeek * MinutesPerDay - 1)

InitResolver ==
  /\ now \in AllMinutesOfWeek
  /\ sched \in Schedules
  /\ USER_GROUP = EmptyDict
  /\ KNOWN_CHATS = {}
  /\ jobs = EmptyBag
  /\ delivered = EmptyBag
  /\ reply = NoReply
  /\ ann = NoAnnounce
  /\ calls = EmptyBag

CallSlotIndexFor ==
  /\ reply' = [NoReply EXCEPT !.kind = "slot_index_for", !.idx = slot_index_for(now)]
  /\ UNCHANGED <<now, sched, USER_GROUP, KNOWN_CHATS, jobs, delivered, ann, calls>>

CallCurrentClass(group) ==
  /\ reply' = [NoReply EXCEPT !.kind = "current_class", !.group = group,
                              !.entry = current_class(group, now)]
  /\ UNCHANGED <<now, sched, USER_GROUP, KNOWN_CHATS, jobs, delivered, ann, calls>>

CallNextClass(group) ==
  /\ reply' = [NoReply EXCEPT !.kind = "next_class", !.group = group,
                              !.res = next_class(group, now)]
  /\ UNCHANGED <<now, sched, USER_GROUP, KNOWN_CHATS, jobs, delivered, ann, calls>>

\* next_class called again with its own previous result as the new "now".
CallNextClassAgain ==
  /\ reply.kind = "next_class"
  /\ reply.res.found
  /\ date(reply.res.when) <= MaxChainDay
  /\ now' = reply.res.when
  /\ reply' = [NoReply EXCEPT !.kind = "next_class", !.group = reply.group,
                              !.res = next_class(reply.group, reply.res.when),
                              !.prev = reply.res.when]
  /\ UNCHANGED <<sched, USER_GROUP, KNOWN_CHATS, jobs, delivered, ann, calls>>

NextResolver ==
  \/ CallSlotIndexFor
  \/ \E group \in GroupNames : CallCurrentClass(group)
  \/ \E group \in GroupNames : CallNextClass(group)
  \/ CallNextClassAgain

SpecResolver == InitResolver /\ [][NextResolver]_vars


\* ------------------------------------------------ reminder specification
\* subscribe, the clock and the job queue over one day.
\* The days subscribe is called on: a Wednesday of the shipped timetable (six
\* classes and a free slot), its Saturday (no class), and a Tuesday with one
\* class.
DaysOf(schedule) == IF schedule = SCHEDULE THEN {2, 5} ELSE {1}

ReminderSenders == {<<2002, 2002>>, <<2002, -100>>}

InitReminders ==
  /\ sched \in {SCHEDULE, TwoClassWeek}
  /\ now \in {combine(d, p) : d \in DaysOf(sched), p \in ClockPoints}
  /\ USER_GROUP = EmptyDict
  /\ KNOWN_CHATS = {}
  /\ jobs = EmptyBag
  /\ delivered = EmptyBag
  /\ reply = NoReply
  /\ ann = NoAnnounce
  /\ calls = EmptyBag

NextReminders ==
  \/ \E s \in ReminderSenders :
       BagCardinality(calls) < MaxSubscribes /\ subscribe(s[1], s[2])
  \/ \E p \in ClockPoints : tick(combine(date(now), p))
  \/ \E job \in BagToSet(jobs) : reminder_job(job)

SpecReminders == InitReminders /\ [][NextReminders]_vars

\* ------------------------------------------------- handler specification
\* Every command handler, at a fixed instant (a Monday, 09:00).
GroupArgs == {"", "Group-7", "Group-9"}
AnnounceArgs == {"", "exam on friday"}
Texts == {"where is the class", "who is the developer", "hello"}

Init ==
  /\ now = combine(0, hm(9, 0))
  /\ sched = SCHEDULE
  /\ USER_GROUP = EmptyDict
  /\ KNOWN_CHATS = {}
  /\ jobs = EmptyBag
  /\ delivered = EmptyBag
  /\ reply = NoReply
  /\ ann = NoAnnounce
  /\ calls = EmptyBag

Next ==
  \/ \E s \in Senders : start(s[1], s[2])
  \/ \E s \in Senders : \E text \in GroupArgs : setgroup(s[1], s[2], text)
  \/ \E s \in Senders : help_cmd(s[1], s[2])
  \/ \E s \in Senders : \E text \in Texts : text_router(s[1], s[2], text)
  \/ \E s \in Senders : today(s[1], s[2])
  \/ \E s \in Senders : tomorrow(s[1], s[2])
  \/ \E s \in Senders : week(s[1], s[2])
  \/ \E s \in Senders : next_cmd(s[1], s[2])
  \/ \E s \in Senders : BagCardinality(calls) < MaxChatSubscribes /\ subscribe(s[1], s[2])
  \/ \E s \in Senders : \E text \in AnnounceArgs : announce(s[1], s[2], text)
  \/ \E ok \in BOOLEAN : announce_send(ok)
  \/ announce_report

Spec == Init /\ [][Next]_vars

\* ---------------------------------------------------------------- claims

\* C4: slot_index_for is total and unambiguous: it answers i exactly when
\* slot i's half-open interval [start, end) contains the time of day, and none
\* exactly before 09:30, at or after 17:30 and in the lunch gap; a start maps to
\* its slot, an end never does (10:45 -> 1, 13:30 -> none, 14:30 -> 4).
C4_SlotClockTotalUnambiguous ==
  reply.kind = "slot_index_for" =>
    LET T == timetz(now)
        r == reply.idx
    IN /\ r \in SlotIdx \cup {NoSlot}
       /\ \A i \in SlotIdx : (r = i) <=> (Slot(i).start <= T /\ T < Slot(i).end)
       /\ (r = NoSlot) <=> (T < 570 \/ T >= 1050 \/ (810 <= T /\ T < 870))
       /\ (T = 645 => r = 1)
       /\ (T = 810 => r = NoSlot)
       /\ (T = 870 => r = 4)
       /\ \A i \in SlotIdx : (T = Slot(i).start => r = i) /\ (T = Slot(i).end => r # i)

C4_Witness ==
  /\ reply.kind = "slot_index_for"
  /\ timetz(now) = 630
  /\ reply.idx = 1

\* C5: current_class answers the entry stored at today's weekday and the slot
\* index of now when that index exists, the cell is occupied and the group is
\* known, and none otherwise; so none throughout lunch and all Sunday.
C5_CurrentClassIsTodaysCell ==
  reply.kind = "current_class" =>
    LET T == timetz(now)
        wd == weekday(now)
        inSlot == {i \in SlotIdx : Slot(i).start <= T /\ T < Slot(i).end}
    IN /\ (reply.group = "Group-7" /\ inSlot # {})
            => \A i \in inSlot : reply.entry = sched[wd][i + 1]
       /\ (reply.group # "Group-7" \/ inSlot = {}) => reply.entry = None
       /\ (LUNCH_FROM <= T /\ T < LUNCH_TO) => reply.entry = None
       /\ wd = 6 => reply.entry = None

C5_Witness ==
  /\ reply.kind = "current_class"
  /\ reply.group = "Group-7"
  /\ sched = SCHEDULE
  /\ weekday(now) = 3
  /\ timetz(now) = 690
  /\ reply.entry = ClassEntry("AIML LAB", "Oracle Lab")

\* The non-empty slot occurrences strictly after t, today up to and including
\* the same weekday one week later.
OccurrencesAfter(t) ==
  {p \in (0 .. 7) \X SlotIdx :
     /\ sched[(weekday(t) + p[1]) % 7][p[2] + 1] # None
     /\ combine(date(t) + p[1], Slot(p[2]).start) > t}

EarliestAfter(t) ==
  LET occ == OccurrencesAfter(t)
      first == CHOOSE p \in occ : \A q \in occ :
                 combine(date(t) + p[1], Slot(p[2]).start)
                   <= combine(date(t) + q[1], Slot(q[2]).start)
  IN IF occ = {} THEN NoResult
     ELSE [found |-> TRUE,
           when |-> combine(date(t) + first[1], Slot(first[2]).start),
           entry |-> sched[(weekday(t) + first[1]) % 7][first[2] + 1]]

C2_NextClassStrictlyAfterNow ==
  (reply.kind = "next_class" /\ reply.res.found) =>
    /\ reply.res.when > now
    /\ timetz(reply.res.when) \in {Slot(i).start : i \in SlotIdx}
    /\ (reply.prev # -1 => (reply.prev = now /\ reply.res.when > reply.prev))

C2_Witness ==
  /\ reply.kind = "next_class"
  /\ reply.prev # -1
  /\ reply.res.found
  /\ timetz(now) = 570
  /\ date(reply.res.when) = date(now)

\* ------------------------------------------------------- reminder claims
\* Slot i is eligible for a reminder at time t: occupied today and its start
\* minus 10 minutes strictly after t.
Eligible(i, t) ==
  /\ sched[weekday(t)][i + 1] # None
  /\ combine(date(t), Slot(i).start) - 10 > t

ExpectedJob(user, chat, i, t) ==
  [name |-> <<user, combine(date(t), Slot(i).start)>>,
   when |-> combine(date(t), Slot(i).start) - 10,
   chat |-> chat,
   entry |-> sched[weekday(t)][i + 1],
   slot |-> <<Slot(i).start \div 60, Slot(i).start % 60>>]

ExpectedMessage(chat, i, t) ==
  [chat |-> chat, slot |-> <<Slot(i).start \div 60, Slot(i).start % 60>>,
   entry |-> sched[weekday(t)][i + 1]]

NewCall == CHOOSE x \in BagToSet(calls') : CopiesIn(x, calls') > CopiesIn(x, calls)

\* C3: a subscribe call registers one one-shot reminder for exactly the slots
\* of today that are occupied and whose start minus 10 minutes is strictly
\* after now, each firing at start minus 10 minutes with the slot's entry, and
\* nothing else; the count it reports is the number registered, zero being
\* the "nothing remaining" answer.
C3_SubscribeRegistersEligibleSlots ==
  [][calls' # calls =>
       LET c == NewCall
           eligible == {i \in SlotIdx : Eligible(i, now)}
       IN /\ jobs' = jobs (+) SetToBag({ExpectedJob(c.user, c.chat, i, now) : i \in eligible})
          /\ reply'.cmd = "subscribe"
          /\ reply'.n = Cardinality(eligible)
          /\ reply'.kind = IF eligible = {} THEN "nothing_remaining" ELSE "subscribed"
          /\ (timetz(now) = 540 /\ sched[weekday(now)][1] # None)
               => CopiesIn(ExpectedJob(c.user, c.chat, 0, now), jobs')
                    = CopiesIn(ExpectedJob(c.user, c.chat, 0, now), jobs) + 1
          /\ (timetz(now) = 565)
               => \A j \in BagToSet(jobs') :
                    j.slot = <<9, 30>> => CopiesIn(j, jobs') = CopiesIn(j, jobs)
          /\ delivered' = delivered
     ]_vars

C3_Witness ==
  /\ reply.cmd = "subscribe"
  /\ reply.kind = "subscribed"
  /\ sched = SCHEDULE
  /\ now = combine(2, 540)
  /\ reply.n = 6
  /\ BagCardinality(jobs) = 6
  /\ \E j \in BagToSet(jobs) : j.when = combine(2, 560) /\ j.slot = <<9, 30>>

RECURSIVE CountCalls(_, _, _, _)
CountCalls(S, user, chat, i) ==
  IF S = {} THEN 0
  ELSE LET x == CHOOSE y \in S : TRUE
       IN (IF x.user = user /\ x.chat = chat /\ Eligible(i, x.at)
             THEN CopiesIn(x, calls) ELSE 0)
          + CountCalls(S \ {x}, user, chat, i)

\* C10: subscribe calls never cancel or deduplicate one another: after k calls
\* from one user and chat made while slot s was eligible, k reminders for s are
\* pending until start(s) minus 10 minutes, and each is delivered once.
C10_SubscribeCallsAccumulate ==
  \A s \in ReminderSenders : \A i \in SlotIdx :
    LET k == CountCalls(BagToSet(calls), s[1], s[2], i)
        job == ExpectedJob(s[1], s[2], i, now)
        pending == CopiesIn(job, jobs)
        sent == CopiesIn(ExpectedMessage(s[2], i, now), delivered)
    IN /\ pending + sent = k
       /\ now < job.when => pending = k
       /\ now > job.when => sent = k

C10_Witness ==
  /\ \E m \in BagToSet(delivered) : CopiesIn(m, delivered) = 2
  /\ \E j \in BagToSet(jobs) : CopiesIn(j, jobs) = 2

\* -------------------------------------------------------- handler claims
Users == {s[1] : s \in Senders}

\* C6: a setgroup request naming a group that is not in the registry leaves
\* the caller's assignment as it was and answers with a rejection; the
\* assignment changes only for a supported name.
C6_UnknownGroupLeavesAssignment ==
  [][(reply'.cmd = "setgroup" /\ reply' # reply) =>
       IF reply'.group \in DOMAIN SUPPORTED_GROUPS
         THEN /\ reply'.kind = "group_updated"
              /\ reply'.user \in DOMAIN USER_GROUP'
              /\ USER_GROUP'[reply'.user] = reply'.group
              /\ \A u \in Users \ {reply'.user} :
                   /\ (u \in DOMAIN USER_GROUP') <=> (u \in DOMAIN USER_GROUP)
                   /\ u \in DOMAIN USER_GROUP => USER_GROUP'[u] = USER_GROUP[u]
         ELSE /\ USER_GROUP' = USER_GROUP
              /\ reply'.kind = IF reply'.group = "" THEN "usage" ELSE "unknown_group"
     ]_vars

C6_Witness ==
  /\ reply.cmd = "setgroup"
  /\ reply.kind = "unknown_group"
  /\ reply.group = "Group-9"
  /\ reply.user \in DOMAIN USER_GROUP
  /\ USER_GROUP[reply.user] = "Group-7"

SeqToSet(q) == {q[i] : i \in 1 .. Len(q)}

\* C7: an admin's announce attempts one send to every chat known when the
\* fan-out starts, whichever sends fail; a failure stops nothing, and the
\* count reported is the number of sends that succeeded.
C7_BroadcastReachesEveryKnownChat ==
  [][/\ (ann.pc # "sending" /\ ann'.pc = "sending")
          => /\ ann'.known = KNOWN_CHATS'
             /\ ann'.attempted = << >>
             /\ ann'.user \in ADMIN_IDS
     /\ (ann'.pc = "sending")
          => /\ SeqToSet(ann'.attempted) \cup SeqToSet(ann'.queue) = ann'.known
             /\ Len(ann'.attempted) + Len(ann'.queue) = Cardinality(ann'.known)
     /\ (ann.pc = "sending" /\ ann'.pc # "sending")
          => /\ SeqToSet(ann.attempted) = ann.known
             /\ Len(ann.attempted) = Cardinality(ann.known)
             /\ reply'.cmd = "announce"
             /\ reply'.kind = "announced"
             /\ reply'.n = Len(ann.attempted) - Len(ann.failed)
             /\ Len(ann.failed) = 1 => reply'.n = Cardinality(ann.known) - 1
    ]_vars

\* The fan-out over three chats has ended although its first send failed.
C7_Witness ==
  /\ ann.pc = "sending"
  /\ ann.queue = << >>
  /\ Cardinality(ann.known) = 3
  /\ Len(ann.attempted) = 3
  /\ Len(ann.failed) = 1
  /\ ann.failed[1] = ann.attempted[1]
  /\ ann.sent = 2

\* C8 as stated: an announce by a non-admin is rejected and leaves
\* UserGroupAssignment, KnownChats and the pending reminders as they were and
\* sends nothing.
C8_RejectedAnnounceNoSideEffect ==
  [][(reply'.cmd = "announce" /\ reply'.user \notin ADMIN_IDS /\ reply' # reply) =>
       /\ reply'.kind = "not_allowed"
       /\ USER_GROUP' = USER_GROUP
       /\ KNOWN_CHATS' = KNOWN_CHATS
       /\ jobs' = jobs
       /\ ann' = ann
    ]_vars

\* C8 amended: an announce by a non-admin is rejected, sends nothing and
\* leaves UserGroupAssignment and the pending reminders as they were;
\* KnownChats gains the issuing chat and nothing else.
C8_RejectedAnnounceOnlyRemembersChat ==
  [][/\ (reply'.cmd = "announce" /\ reply'.user \notin ADMIN_IDS /\ reply' # reply) =>
          /\ reply'.kind = "not_allowed"
          /\ USER_GROUP' = USER_GROUP
          /\ KNOWN_CHATS' = KNOWN_CHATS \cup {reply'.chat}
          /\ jobs' = jobs
          /\ ann' = ann
     /\ ann'.pc # "idle" => ann'.user \in ADMIN_IDS
    ]_vars

C8_Witness ==
  /\ reply.cmd = "announce"
  /\ reply.kind = "not_allowed"
  /\ reply.user = 2002
  /\ reply.chat = -100
  /\ jobs # EmptyBag
  /\ USER_GROUP # EmptyDict
  /\ ann.pc = "idle"
  /\ KNOWN_CHATS = {2002, -100}

\* C9 as stated: once a user has issued any command, UserGroupAssignment
\* holds an entry for that user.
C9_EveryCommandCreatesEntry ==
  reply.cmd \in {"start", "today", "tomorrow", "week", "next", "subscribe",
                 "where", "setgroup", "help", "announce"}
    => reply.user \in DOMAIN USER_GROUP

\* C9 amended: an entry of UserGroupAssignment is created only by the user's
\* start (with "Group-7") or valid setgroup (with the group requested), and
\* start always leaves one; once present it stays in every later state and
\* changes only by the user's valid setgroup; the other commands create no
\* entry and use "Group-7" for a user who has none.
C9_EntryCreatedByStartOrSetgroupAndKept ==
  [][/\ \A u \in Users :
          /\ u \in DOMAIN USER_GROUP =>
               /\ u \in DOMAIN USER_GROUP'
               /\ USER_GROUP'[u] # USER_GROUP[u] =>
                    /\ reply'.cmd = "setgroup" /\ reply'.user = u
                    /\ reply'.group = USER_GROUP'[u]
                    /\ reply'.group \in DOMAIN SUPPORTED_GROUPS
          /\ (u \notin DOMAIN USER_GROUP /\ u \in DOMAIN USER_GROUP') =>
               \/ reply'.cmd = "start" /\ reply'.user = u /\ USER_GROUP'[u] = "Group-7"
               \/ /\ reply'.cmd = "setgroup" /\ reply'.user = u
                  /\ reply'.group = USER_GROUP'[u]
                  /\ reply'.group \in DOMAIN SUPPORTED_GROUPS
     /\ reply'.cmd = "start" => reply'.user \in DOMAIN USER_GROUP'
     /\ (reply'.cmd \in {"today", "tomorrow", "week", "next", "subscribe", "where"}
           /\ reply' # reply) =>
          /\ USER_GROUP' = USER_GROUP
          /\ reply'.user \notin DOMAIN USER_GROUP => reply'.group = "Group-7"
    ]_vars

C9_Witness ==
  /\ reply.cmd = "today"
  /\ reply.user = 2002
  /\ DOMAIN USER_GROUP = {2002, 1255061320}
  /\ reply.group = "Group-7"

====
